---- MODULE Spec2Model ----
(***************************************************************************)
(* Model of the WebSQL emulation layer of websql-sqlite3.                  *)
(*                                                                         *)
(*   "node"    : src/websql-sqlite3-node.js  (sqlite3 driver, operations   *)
(*               are queued on the connection and complete by callback)    *)
(*   "browser" : src/unnamed/part_000        (SQLite3 WASM oo1 driver,     *)
(*               db.exec runs synchronously inside executeSql)             *)
(*                                                                         *)
(* A run of the model is a run of one variant, chosen in Init.  trace[t]    *)
(* is the history of transaction t: what it dispatched, what the driver    *)
(* executed and completed, which callbacks ran.  executed is the order in  *)
(* which the connection executed operations, across transactions.          *)
(***************************************************************************)
EXTENDS Integers, Sequences, FiniteSets, TLC

\* Bounds of the model: transactions opened in a run, and executeSql calls
\* made in a run (over all transactions).
MaxTx == 2
MaxCalls == 2

\* The callbacks a caller passes: <<successCallback, errorCallback>>, TRUE
\* where the argument is a function.  Transactions are opened with both
\* callbacks, as in the usage examples; statements with both, with a success
\* callback only, or with none.
TxCallbacks == {<<TRUE, TRUE>>}
StmtCallbacks == {<<TRUE, TRUE>>, <<TRUE, FALSE>>, <<FALSE, FALSE>>}

VARIABLES
    variant,    \* "node" or "browser"
    txs,        \* the Transaction objects created so far, in creation order
    building,   \* the transaction whose builder callback is running, or 0
    tickQueue,  \* process.nextTick queue: transactions waiting to be processed
    queue,      \* the connection's pending operations (serialized mode)
    running,    \* <<op>> while the driver executes op, <<>> otherwise
    trace,      \* per transaction: history of its dispatches, completions, callbacks
    executed,   \* the operations the engine has executed, in execution order
    conn        \* the connection made by openDatabase and its creation callback

vars == <<variant, txs, building, tickQueue, queue, running, trace, executed, conn>>

Variants == {"node", "browser"}

TxIds == 1..Len(txs)

\* The number of executeSql calls made so far on the first n transactions.
RECURSIVE CallsMade(_)
CallsMade(n) == IF n = 0 THEN 0 ELSE Len(txs[n].statements) + CallsMade(n - 1)

\* An operation handed to the driver: BEGIN, COMMIT, or statement idx of tx.
Op(t, kind, idx) == [tx |-> t, kind |-> kind, idx |-> idx]

\* An entry of the history.
Ev(type, op, ok) ==
    [ev |-> type, tx |-> op.tx, kind |-> op.kind, idx |-> op.idx, ok |-> ok]

\* The object pushed by executeSql: which of its two callbacks are functions.
Statement(successCallback, errorCallback) ==
    [successCallback |-> successCallback, errorCallback |-> errorCallback]

\* new Transaction(db, readOnly, errorCallback, successCallback)
NewTransaction(readOnly, errorCallback, successCallback) ==
    [readOnly |-> readOnly,
     errorCallback |-> errorCallback,
     successCallback |-> successCallback,
     statements |-> <<>>,
     processed |-> FALSE,
     errorOccurred |-> FALSE,
     chains |-> FALSE,
     parent |-> 0]

\* The usage example: db.transaction(builder, console.error, () => {
\* db.readTransaction(builder2) }).  chains: the transaction's success
\* callback opens a read transaction; parent: the transaction whose success
\* callback opened this one, or 0.
ChainingTransaction ==
    [NewTransaction(FALSE, TRUE, TRUE) EXCEPT !.chains = TRUE]

ChainedReadTransaction(t) ==
    [NewTransaction(TRUE, FALSE, FALSE) EXCEPT !.parent = t]

\* The connection before openDatabase is called.
\*   state            : "unopened", "opening", "open" or "failed"
\*   returned         : openDatabase has returned the handle
\*   creationCallback : openDatabase was given a creation callback
\*   creationCalls    : how often the creation callback has been invoked
\*   beforeReturn     : it was invoked before openDatabase returned
\*   txsBefore        : transactions started before it was invoked
Unopened ==
    [state |-> "unopened", returned |-> FALSE, creationCallback |-> FALSE,
     creationCalls |-> 0, beforeReturn |-> FALSE, txsBefore |-> 0]

\* openDatabase(name, ...) without a creation callback has returned the
\* handle and the database is open.
Opened == [Unopened EXCEPT !.state = "open", !.returned = TRUE]

\* The state from which transactions are run: the handle exists.
Init ==
    /\ variant \in Variants
    /\ txs = <<>>
    /\ building = 0
    /\ tickQueue = <<>>
    /\ queue = <<>>
    /\ running = <<>>
    /\ trace = <<>>
    /\ executed = <<>>
    /\ conn = Opened

\* The state before openDatabase is called.
InitOpen ==
    /\ variant \in Variants
    /\ txs = <<>>
    /\ building = 0
    /\ tickQueue = <<>>
    /\ queue = <<>>
    /\ running = <<>>
    /\ trace = <<>>
    /\ executed = <<>>
    /\ conn = Unopened

----------------------------------------------------------------------------
(* openDatabase                                                            *)

\* Node: new sqlite3.Database(name, callback) starts opening the database
\* and openDatabase returns the handle; the callback runs later.
NodeOpenDatabase ==
    /\ variant = "node"
    /\ conn.state = "unopened"
    /\ \E cb \in BOOLEAN :
        conn' = [conn EXCEPT !.state = "opening", !.returned = TRUE,
                             !.creationCallback = cb]
    /\ UNCHANGED <<variant, txs, building, tickQueue, queue, running, trace, executed>>

\* Mutant of CreationCalls: the creation callback is called whether or not
\* opening failed.
CreationCallsIgnoringError(err, creationCallback) ==
    IF creationCallback THEN 1 ELSE 0

\* if (err) console.error(...) else if (typeof creationCallback ===
\* 'function') creationCallback(db): the number of calls made.
CreationCalls(err, creationCallback) ==
    IF ~err /\ creationCallback THEN 1 ELSE 0

\* Node: the callback given to new sqlite3.Database runs when opening has
\* succeeded or failed.  It is a JavaScript callback, so it waits for the
\* builder and the nextTick queue.
NodeOpened ==
    /\ variant = "node"
    /\ conn.state = "opening"
    /\ building = 0
    /\ tickQueue = <<>>
    /\ \E err \in BOOLEAN :
        LET calls == CreationCalls(err, conn.creationCallback)
        IN conn' = [conn EXCEPT
                       !.state = IF err THEN "failed" ELSE "open",
                       !.creationCalls = @ + calls,
                       !.txsBefore = IF calls > 0 THEN Len(txs) ELSE @]
    /\ UNCHANGED <<variant, txs, building, tickQueue, queue, running, trace, executed>>

\* Browser: new sqlite3.oo1.DB(name, 'ct') opens the database or throws;
\* then the creation callback, if given, is called, and the handle returned.
BrowserOpenDatabase ==
    /\ variant = "browser"
    /\ conn.state = "unopened"
    /\ \E cb \in BOOLEAN, threw \in BOOLEAN :
        conn' = IF threw
                THEN [conn EXCEPT !.state = "failed", !.creationCallback = cb]
                ELSE [conn EXCEPT !.state = "open", !.returned = TRUE,
                                  !.creationCallback = cb,
                                  !.creationCalls = IF cb THEN @ + 1 ELSE @,
                                  !.beforeReturn = cb]
    /\ UNCHANGED <<variant, txs, building, tickQueue, queue, running, trace, executed>>

----------------------------------------------------------------------------
(* Node variant                                                            *)

\* The chaining transactions whose success callback has not run yet: each
\* will open one more transaction, which counts against MaxTx.
Reserved == Cardinality({t \in TxIds : txs[t].chains /\ ~txs[t].processed})

\* transaction()/readTransaction(): construct the Transaction, which
\* schedules its processing with process.nextTick, then enter the builder.
NodeOpen(readOnly, errorCallback, successCallback) ==
    /\ variant = "node"
    /\ conn.returned
    /\ building = 0
    /\ Len(txs) + Reserved < MaxTx
    /\ txs' = Append(txs, NewTransaction(readOnly, errorCallback, successCallback))
    /\ trace' = Append(trace, <<>>)
    /\ tickQueue' = Append(tickQueue, Len(txs) + 1)
    /\ building' = Len(txs) + 1
    /\ UNCHANGED <<conn, variant, queue, running, executed>>

NodeTransaction ==
    \E cb \in TxCallbacks : NodeOpen(FALSE, cb[2], cb[1])

NodeReadTransaction ==
    \E cb \in TxCallbacks : NodeOpen(TRUE, cb[2], cb[1])

\* transaction() called as in the usage example.
NodeUsageTransaction ==
    /\ variant = "node"
    /\ conn.returned
    /\ building = 0
    /\ Len(txs) + Reserved + 1 < MaxTx
    /\ txs' = Append(txs, ChainingTransaction)
    /\ trace' = Append(trace, <<>>)
    /\ tickQueue' = Append(tickQueue, Len(txs) + 1)
    /\ building' = Len(txs) + 1
    /\ UNCHANGED <<conn, variant, queue, running, executed>>

\* tx.executeSql(sql, params, successCallback, errorCallback): push only.
\* The Transaction object stays usable after its builder returned.
NodeExecuteSql ==
    /\ variant = "node"
    /\ \E t \in TxIds, cb \in StmtCallbacks :
        /\ CallsMade(Len(txs)) < MaxCalls
        /\ txs' = [txs EXCEPT ![t].statements = Append(@, Statement(cb[1], cb[2]))]
    /\ UNCHANGED <<conn, variant, building, tickQueue, queue, running, trace, executed>>

\* The builder callback returns to transaction()/readTransaction().
BuilderReturn ==
    /\ building # 0
    /\ building' = 0
    /\ UNCHANGED <<conn, variant, txs, tickQueue, queue, running, trace, executed>>

\* Mutant of BeginOps: BEGIN is sent without looking at readOnly.
BeginOpsAlways(t, readOnly) ==
    <<Op(t, "BEGIN", 0)>>

\* if (!readOnly) db.run("BEGIN TRANSACTION;")
BeginOps(t, readOnly) ==
    IF ~readOnly THEN <<Op(t, "BEGIN", 0)>> ELSE <<>>

\* Mutant of ForEachOps: the statements are walked from the last to the first.
ForEachOpsReversed(t, n, errorOccurred) ==
    IF errorOccurred THEN <<>> ELSE [k \in 1..n |-> Op(t, "STMT", n + 1 - k)]

\* statements.forEach(...): errorOccurred is only written by completion
\* callbacks, which cannot run during the loop, so every iteration reads
\* the same value.
ForEachOps(t, n, errorOccurred) ==
    IF errorOccurred THEN <<>> ELSE [k \in 1..n |-> Op(t, "STMT", k)]

\* if (!readOnly && !errorOccurred) db.run("COMMIT;")
CommitOps(t, readOnly, errorOccurred) ==
    IF ~readOnly /\ ~errorOccurred THEN <<Op(t, "COMMIT", 0)>> ELSE <<>>

\* if (typeof successCallback === 'function' && !errorOccurred) successCallback()
TxSuccessEvents(t, successCallback, errorOccurred) ==
    IF successCallback /\ ~errorOccurred
    THEN <<Ev("txSuccess", Op(t, "TX", 0), TRUE)>>
    ELSE <<>>

\* Everything the nextTick callback submits to the connection, in order.
TickOps(t, tx, errorOccurred) ==
    BeginOps(t, tx.readOnly)
    \o ForEachOps(t, Len(tx.statements), errorOccurred)
    \o CommitOps(t, tx.readOnly, errorOccurred)

DispatchEvents(ops) == [i \in 1..Len(ops) |-> Ev("dispatch", ops[i], TRUE)]

\* The process.nextTick callback of the oldest scheduled transaction.  It
\* runs once the current JavaScript (the builder) has run to completion.
\* When the success callback of a chaining transaction runs, it calls
\* readTransaction: a new Transaction is constructed and scheduled, and its
\* builder is entered, all inside the callback.
NodeTick ==
    /\ variant = "node"
    /\ building = 0
    /\ tickQueue # <<>>
    /\ LET t == Head(tickQueue)
           tx == txs[t]
           errorOccurred == FALSE
           ops == TickOps(t, tx, errorOccurred)
           called == TxSuccessEvents(t, tx.successCallback, errorOccurred)
           processed == [txs EXCEPT ![t].processed = TRUE,
                                    ![t].errorOccurred = errorOccurred]
           history == [trace EXCEPT ![t] = @ \o DispatchEvents(ops) \o called]
       IN /\ queue' = queue \o ops
          /\ IF tx.chains /\ called # <<>>
             THEN /\ Len(txs) < MaxTx
                  /\ txs' = Append(processed, ChainedReadTransaction(t))
                  /\ trace' = Append(history, <<>>)
                  /\ tickQueue' = Append(Tail(tickQueue), Len(txs) + 1)
                  /\ building' = Len(txs) + 1
             ELSE /\ txs' = processed
                  /\ trace' = history
                  /\ tickQueue' = Tail(tickQueue)
                  /\ building' = building
    /\ UNCHANGED <<conn, variant, running, executed>>

\* Mutant of TakeNext: without db.serialize the pending operations are not
\* run one after the other in submission order; here the newest one is run.
TakeNewest(q) == <<q[Len(q)], SubSeq(q, 1, Len(q) - 1)>>

\* Serialized mode: the connection runs its pending operations one at a
\* time, oldest first.  <<the operation to run, the operations left>>
TakeNext(q) == <<Head(q), Tail(q)>>

\* The driver starts the next pending operation.  A statement succeeds or
\* fails; the outcome is the engine's.  Operations submitted before the
\* database is open wait for it.
DriverExecute ==
    /\ variant = "node"
    /\ conn.state = "open"
    /\ running = <<>>
    /\ queue # <<>>
    /\ LET op == TakeNext(queue)[1]
       IN /\ \E ok \in (IF op.kind = "STMT" THEN BOOLEAN ELSE {TRUE}) :
                /\ running' = <<[op |-> op, ok |-> ok]>>
                /\ trace' = [trace EXCEPT ![op.tx] = Append(@, Ev("exec", op, ok))]
                /\ executed' = Append(executed, Ev("exec", op, ok))
          /\ queue' = TakeNext(queue)[2]
    /\ UNCHANGED <<conn, variant, txs, building, tickQueue>>

\* The body of the db.all completion callback: function (err, rows) {...}
StatementCallbackEvents(op, stmt, ok) ==
    IF ~ok
    THEN IF stmt.errorCallback THEN <<Ev("stmtError", op, FALSE)>> ELSE <<>>
    ELSE IF stmt.successCallback THEN <<Ev("stmtSuccess", op, TRUE)>> ELSE <<>>

\* errorOccurred after the completion callback ran.
ErrorOccurredAfter(errorOccurred, ok) == IF ~ok THEN TRUE ELSE errorOccurred

\* The driver delivers the completion of the running operation.  It is a
\* JavaScript callback, so it waits for the builder and the nextTick queue.
\* db.run("BEGIN")/db.run("COMMIT") are given no callback.
DriverComplete ==
    /\ variant = "node"
    /\ running # <<>>
    /\ building = 0
    /\ tickQueue = <<>>
    /\ LET op == running[1].op
           ok == running[1].ok
       IN IF op.kind = "STMT"
          THEN /\ trace' = [trace EXCEPT ![op.tx] = Append(@, Ev("complete", op, ok))
                             \o StatementCallbackEvents(op, txs[op.tx].statements[op.idx], ok)]
               /\ txs' = [txs EXCEPT ![op.tx].errorOccurred = ErrorOccurredAfter(@, ok)]
          ELSE /\ trace' = [trace EXCEPT ![op.tx] = Append(@, Ev("complete", op, ok))]
               /\ UNCHANGED txs
    /\ running' = <<>>
    /\ UNCHANGED <<conn, variant, building, tickQueue, queue, executed>>

----------------------------------------------------------------------------
(* Browser variant                                                         *)

\* transaction()/readTransaction(): construct the Transaction and enter the
\* builder.  The constructor only defines executeSql.
BrowserOpen(readOnly, errorCallback, successCallback) ==
    /\ variant = "browser"
    /\ conn.returned
    /\ building = 0
    /\ Len(txs) < MaxTx
    /\ txs' = Append(txs, NewTransaction(readOnly, errorCallback, successCallback))
    /\ trace' = Append(trace, <<>>)
    /\ building' = Len(txs) + 1
    /\ UNCHANGED <<conn, variant, tickQueue, queue, running, executed>>

BrowserTransaction ==
    \E cb \in TxCallbacks : BrowserOpen(FALSE, cb[2], cb[1])

BrowserReadTransaction ==
    \E cb \in TxCallbacks : BrowserOpen(TRUE, cb[2], cb[1])

\* transaction() called as in the usage example.  The success callback is
\* stored in the Transaction's closure and nothing calls it.
BrowserUsageTransaction ==
    /\ variant = "browser"
    /\ conn.returned
    /\ building = 0
    /\ Len(txs) < MaxTx
    /\ txs' = Append(txs, ChainingTransaction)
    /\ trace' = Append(trace, <<>>)
    /\ building' = Len(txs) + 1
    /\ UNCHANGED <<conn, variant, tickQueue, queue, running, executed>>

\* try { db.exec(...); if (successCallback) successCallback(...) }
\* catch (err) { if (errorCallback) errorCallback(err) }
\* threw: the success callback itself raised an exception.
BrowserCallbackEvents(op, stmt, ok, threw) ==
    IF ~ok
    THEN IF stmt.errorCallback THEN <<Ev("stmtError", op, FALSE)>> ELSE <<>>
    ELSE IF stmt.successCallback
         THEN <<Ev("stmtSuccess", op, TRUE)>>
              \o (IF threw /\ stmt.errorCallback
                  THEN <<Ev("stmtError", op, TRUE)>> ELSE <<>>)
         ELSE <<>>

\* tx.executeSql(...): the statement runs at once, inside the call.
\* txs[t].statements records the calls made so far.
BrowserExecuteSql ==
    /\ variant = "browser"
    /\ \E t \in TxIds, cb \in StmtCallbacks, ok \in BOOLEAN :
        /\ CallsMade(Len(txs)) < MaxCalls
        /\ \E threw \in (IF ok /\ cb[1] /\ cb[2] THEN BOOLEAN ELSE {FALSE}) :
            LET op == Op(t, "STMT", Len(txs[t].statements) + 1)
                stmt == Statement(cb[1], cb[2])
            IN /\ txs' = [txs EXCEPT ![t].statements = Append(@, stmt)]
               /\ trace' = [trace EXCEPT ![t] = @ \o <<Ev("dispatch", op, TRUE),
                                      Ev("exec", op, ok),
                                      Ev("complete", op, ok)>>
                                 \o BrowserCallbackEvents(op, stmt, ok, threw)]
               /\ executed' = Append(executed, Ev("exec", op, ok))
    /\ UNCHANGED <<conn, variant, building, tickQueue, queue, running>>

----------------------------------------------------------------------------

Next ==
    \/ NodeTransaction
    \/ NodeReadTransaction
    \/ NodeUsageTransaction
    \/ NodeExecuteSql
    \/ BuilderReturn
    \/ NodeTick
    \/ DriverExecute
    \/ DriverComplete
    \/ BrowserTransaction
    \/ BrowserReadTransaction
    \/ BrowserUsageTransaction
    \/ BrowserExecuteSql

Spec == Init /\ [][Next]_vars

\* The Node variant alone.
InitNode == Init /\ variant = "node"

NextNode ==
    \/ NodeTransaction
    \/ NodeReadTransaction
    \/ NodeUsageTransaction
    \/ NodeExecuteSql
    \/ BuilderReturn
    \/ NodeTick
    \/ DriverExecute
    \/ DriverComplete

SpecNode == InitNode /\ [][NextNode]_vars

\* openDatabase and the transactions opened on its handle.
NextOpen ==
    \/ NodeOpenDatabase
    \/ NodeOpened
    \/ BrowserOpenDatabase
    \/ NodeTransaction
    \/ NodeReadTransaction
    \/ BrowserTransaction
    \/ BrowserReadTransaction
    \/ BuilderReturn
    \/ NodeTick
    \/ DriverExecute
    \/ DriverComplete

SpecOpen == InitOpen /\ [][NextOpen]_vars

----------------------------------------------------------------------------
(* Reading the history                                                     *)

\* The positions of transaction t's history whose entry satisfies P.
Positions(t, P(_)) == {i \in 1..Len(trace[t]) : P(trace[t][i])}

IsTxCallback(e) == e.ev \in {"txSuccess", "txError"}
IsTxSuccess(e) == e.ev = "txSuccess"
IsTxError(e) == e.ev = "txError"
IsStmtDispatch(e) == e.ev = "dispatch" /\ e.kind = "STMT"
IsStmtExec(e) == e.ev = "exec" /\ e.kind = "STMT"
IsStmtEvent(e) == e.kind = "STMT"
IsStmtFailure(e) == e.ev = "exec" /\ e.kind = "STMT" /\ ~e.ok
IsBeginDispatch(e) == e.ev = "dispatch" /\ e.kind = "BEGIN"
IsCommitDispatch(e) == e.ev = "dispatch" /\ e.kind = "COMMIT"
IsBeginOrCommit(e) == e.kind \in {"BEGIN", "COMMIT"}

\* Some statement of t failed at the driver.
SomeFailed(t) == Positions(t, IsStmtFailure) # {}

\* The indices of the statements of t that failed at the driver.
FailedIdx(t) == {trace[t][i].idx : i \in Positions(t, IsStmtFailure)}

\* Statement k of t has had its driver completion delivered before position i.
CompletedBefore(t, k, i) ==
    \E j \in 1..(i - 1) :
        /\ trace[t][j].ev = "complete"
        /\ trace[t][j].kind = "STMT"
        /\ trace[t][j].idx = k

\* Everything transaction t handed to the driver has completed and nothing
\* more of it is scheduled: in the Node variant its nextTick callback ran and
\* none of its operations is pending or running; in the browser variant its
\* builder returned.
Resolved(t) ==
    IF variant = "node"
    THEN /\ txs[t].processed
         /\ \A i \in 1..Len(queue) : queue[i].tx # t
         /\ running = <<>> \/ running[1].op.tx # t
    ELSE building # t

----------------------------------------------------------------------------
(* Claims                                                                  *)

\* C1: the transaction-level callbacks fire exactly once in total per
\* transaction (one success or one error callback), and that invocation
\* comes after the last statement's driver completion, never before.
C1_ExactlyOnceAfterLast ==
    \A t \in TxIds :
        LET cbs == Positions(t, IsTxCallback)
        IN /\ Cardinality(cbs) <= 1
           /\ \A i \in cbs :
                /\ \A j \in Positions(t, IsStmtEvent) : j < i
                /\ \A j \in Positions(t, IsStmtDispatch) :
                       CompletedBefore(t, trace[t][j].idx, i)
           /\ (Resolved(t) /\ txs[t].successCallback /\ txs[t].errorCallback)
                  => Cardinality(cbs) = 1

\* C2: once statement k of a transaction has failed at the driver, no
\* statement after k of that transaction is dispatched to the driver,
\* whether or not statement k has an error callback.
C2_NoDispatchAfterFailure ==
    \A t \in TxIds :
        \A k \in FailedIdx(t) :
            \A j \in Positions(t, IsStmtDispatch) : trace[t][j].idx <= k

\* C3: when a statement of a transaction has failed at the driver and the
\* transaction has resolved, the transaction-level error callback has been
\* invoked exactly once, with the error of that statement.
C3_TxErrorOnceWithError ==
    \A t \in TxIds :
        (Resolved(t) /\ SomeFailed(t) /\ txs[t].errorCallback)
            => /\ Cardinality(Positions(t, IsTxError)) = 1
               /\ \A i \in Positions(t, IsTxError) :
                      /\ trace[t][i].idx \in FailedIdx(t)
                      /\ \A k \in FailedIdx(t) : trace[t][i].idx <= k

\* C4: within one transaction the driver executes the statements in the
\* order executeSql registered them: a statement executed later has a
\* larger registration index, so none is executed twice or reordered.
C4_RegistrationOrder ==
    \A t \in TxIds :
        \A i \in Positions(t, IsStmtExec), j \in Positions(t, IsStmtExec) :
            /\ trace[t][i].idx \in 1..Len(txs[t].statements)
            /\ i < j => trace[t][i].idx < trace[t][j].idx

\* A transaction of the Node variant whose two statements were both executed.
C4_Witness ==
    \E t \in TxIds :
        /\ variant = "node"
        /\ Cardinality(Positions(t, IsStmtExec)) >= 2

\* C5: in a transaction in which no statement fails, the transaction-level
\* success callback is invoked, and strictly after the last statement's
\* driver completion and statement callback.
C5_SuccessAfterLastStatement ==
    \A t \in TxIds :
        (Resolved(t) /\ ~SomeFailed(t) /\ txs[t].successCallback)
            => /\ Cardinality(Positions(t, IsTxSuccess)) = 1
               /\ \A i \in Positions(t, IsTxSuccess) :
                      \A j \in Positions(t, IsStmtEvent) : j < i

\* C6: the transaction-level success callback and a failed statement never
\* both occur in one transaction.
C6_NoSuccessWithFailure ==
    \A t \in TxIds :
        ~(SomeFailed(t) /\ Positions(t, IsTxSuccess) # {})

\* C7: a read-write transaction in which a statement failed never has
\* COMMIT dispatched to the driver.
C7_NoCommitAfterFailure ==
    \A t \in TxIds :
        (~txs[t].readOnly /\ SomeFailed(t))
            => Positions(t, IsCommitDispatch) = {}

\* C8: a read-write transaction in which no statement fails dispatches
\* exactly one BEGIN and exactly one COMMIT, the BEGIN before its first
\* statement and the COMMIT after its last statement.
C8_BeginCommitBracket ==
    \A t \in TxIds :
        (~txs[t].readOnly /\ Resolved(t) /\ ~SomeFailed(t))
            => /\ Cardinality(Positions(t, IsBeginDispatch)) = 1
               /\ Cardinality(Positions(t, IsCommitDispatch)) = 1
               /\ \A b \in Positions(t, IsBeginDispatch),
                     c \in Positions(t, IsCommitDispatch),
                     j \in Positions(t, IsStmtDispatch) : b < j /\ j < c

\* C9: a transaction opened with readTransaction never has BEGIN or COMMIT
\* dispatched to or executed by the driver, whatever its statements and
\* whether or not they fail.
C9_ReadOnlyNoBeginCommit ==
    /\ \A t \in TxIds :
        txs[t].readOnly => Positions(t, IsBeginOrCommit) = {}
    /\ \A i \in 1..Len(queue) :
        IsBeginOrCommit(queue[i]) => ~txs[queue[i].tx].readOnly
    /\ \A i \in 1..Len(executed) :
        IsBeginOrCommit(executed[i]) => ~txs[executed[i].tx].readOnly

\* A read transaction of the Node variant that was processed and resolved,
\* with a failed statement.
C9_Witness ==
    \E t \in TxIds :
        /\ variant = "node"
        /\ txs[t].readOnly
        /\ Resolved(t)
        /\ SomeFailed(t)

----------------------------------------------------------------------------
(* What a callback-only caller of a transaction observes                   *)

IsCallback(e) == e.ev \in {"stmtSuccess", "stmtError", "txSuccess", "txError"}
IsDispatch(e) == e.ev = "dispatch"

\* Every statement registered on t has been dispatched.
AllDispatched(t) ==
    \A k \in 1..Len(txs[t].statements) :
        \E j \in Positions(t, IsStmtDispatch) : trace[t][j].idx = k

\* The driver's outcome for statement k of t (TRUE: success).
OutcomeOf(t, k) ==
    LET j == CHOOSE j \in Positions(t, IsStmtExec) : trace[t][j].idx = k
    IN trace[t][j].ok

\* The history the browser variant produces for the first n statements of t
\* with the driver outcomes of this run and callbacks that do not throw: its
\* transaction()/readTransaction() run the builder, and each executeSql call
\* dispatches its statement and runs its callback.
RECURSIVE BrowserHistory(_, _)
BrowserHistory(t, n) ==
    IF n = 0 THEN <<>>
    ELSE BrowserHistory(t, n - 1)
         \o <<Ev("dispatch", Op(t, "STMT", n), TRUE)>>
         \o BrowserCallbackEvents(Op(t, "STMT", n), txs[t].statements[n],
                                  OutcomeOf(t, n), FALSE)

\* What an entry shows to the caller or to the driver.
Shown(e) == [ev |-> e.ev, kind |-> e.kind, idx |-> e.idx]
ShownSeq(h) == [i \in 1..Len(h) |-> Shown(h[i])]

\* The statements whose execution has taken effect on the database, as a
\* later statement on the same connection sees it.
VisibleEffects ==
    {<<executed[i].tx, executed[i].idx>> :
        i \in {j \in 1..Len(executed) : executed[j].kind = "STMT" /\ executed[j].ok}}

\* The number of entries of t's history of type ev about statement k.
StmtCallbackCount(t, ev, k) ==
    Cardinality({i \in 1..Len(trace[t]) :
        trace[t][i].ev = ev /\ trace[t][i].kind = "STMT" /\ trace[t][i].idx = k})

----------------------------------------------------------------------------
(* Claims, continued                                                       *)

\* C11: for the same transaction kind, statements and driver outcomes, the
\* Node variant and the browser variant invoke the same callbacks in the
\* same order and dispatch the same sequence of operations to the driver.
C11_VariantsEquivalent ==
    \A t \in TxIds :
        (variant = "node" /\ Resolved(t) /\ AllDispatched(t))
            => LET b == BrowserHistory(t, Len(txs[t].statements))
               IN /\ ShownSeq(SelectSeq(trace[t], IsCallback))
                        = ShownSeq(SelectSeq(b, IsCallback))
                  /\ ShownSeq(SelectSeq(trace[t], IsDispatch))
                        = ShownSeq(SelectSeq(b, IsDispatch))

\* C12: while the builder of a transaction is running, none of its
\* statements has been dispatched to the driver: executeSql only registers,
\* and the first dispatch comes after the builder returned.
C12_NoDispatchDuringBuilder ==
    \A t \in TxIds :
        building = t => Positions(t, IsStmtDispatch) = {}

\* C13: in the Node variant statement N+1 of a transaction is submitted to
\* the driver only after the completion callback of statement N has fired.
C13_SubmitAfterPreviousCompletion ==
    \A t \in TxIds :
        \A j \in Positions(t, IsStmtDispatch) :
            trace[t][j].idx > 1 => CompletedBefore(t, trace[t][j].idx - 1, j)

\* C14: after a read-write transaction in which statement k failed, the
\* database shows the effect of no statement of it registered after k.
C14_NoEffectAfterFailure ==
    \A t \in TxIds :
        (~txs[t].readOnly /\ Resolved(t))
            => \A k \in FailedIdx(t) :
                   \A e \in VisibleEffects : e[1] = t => e[2] < k

\* C16: a transaction whose builder registered no statement has its
\* transaction-level success callback invoked exactly once, for transaction
\* and for readTransaction.
C16_EmptyTransactionSucceeds ==
    \A t \in TxIds :
        (Resolved(t) /\ Len(txs[t].statements) = 0 /\ txs[t].successCallback)
            => Cardinality(Positions(t, IsTxSuccess)) = 1

\* C18: for a completed statement registered with both callbacks, the
\* callback matching the driver outcome has been invoked exactly once and
\* the other one not at all.
C18_MatchingCallbackOnly ==
    \A t \in TxIds :
        \A i \in 1..Len(trace[t]) :
            LET e == trace[t][i]
            IN (/\ e.ev = "complete"
                /\ e.kind = "STMT"
                /\ txs[t].statements[e.idx].successCallback
                /\ txs[t].statements[e.idx].errorCallback)
               => IF e.ok
                  THEN /\ StmtCallbackCount(t, "stmtSuccess", e.idx) = 1
                       /\ StmtCallbackCount(t, "stmtError", e.idx) = 0
                  ELSE /\ StmtCallbackCount(t, "stmtError", e.idx) = 1
                       /\ StmtCallbackCount(t, "stmtSuccess", e.idx) = 0

\* C19: every statement registered on a transaction in which no statement
\* failed is dispatched to the driver, also when it was registered after
\* the builder returned: once the transaction has nothing pending, no
\* registered statement is left undispatched.
C19_NoStatementDropped ==
    \A t \in TxIds :
        (Resolved(t) /\ ~SomeFailed(t)) => AllDispatched(t)

\* C20: for any single statement at most one of its success and error
\* callbacks is ever invoked, even when the success callback throws.
C20_AtMostOneStatementCallback ==
    \A t \in TxIds :
        \A k \in 1..Len(txs[t].statements) :
            ~(/\ StmtCallbackCount(t, "stmtSuccess", k) > 0
              /\ StmtCallbackCount(t, "stmtError", k) > 0)

\* The transactions opened from the success callback of t.
Children(t) == {c \in TxIds : txs[c].parent = t}

\* C15: a transaction T2 opened from the success callback of a read-write
\* transaction T1 executes each of its statements after every statement of
\* T1 and after T1's COMMIT, and T2 is opened whenever T1, resolved, has no
\* failed statement.
C15_ChainedTransactionSeesEffects ==
    \A t \in TxIds :
        (txs[t].chains /\ ~txs[t].readOnly)
            => /\ \A c \in Children(t) :
                    \A i \in 1..Len(executed) :
                        (executed[i].tx = c /\ executed[i].kind = "STMT")
                            => /\ \A j \in 1..Len(executed) :
                                      executed[j].tx = t => j < i
                               /\ \E j \in 1..(i - 1) :
                                      /\ executed[j].tx = t
                                      /\ executed[j].kind = "COMMIT"
                               /\ \A k \in 1..Len(queue) : queue[k].tx # t
               /\ (Resolved(t) /\ ~SomeFailed(t)) => Children(t) # {}

\* A chained transaction of the Node variant has executed a statement after
\* its parent executed one.
C15_NodeReached ==
    \E t \in TxIds, c \in TxIds :
        /\ variant = "node"
        /\ txs[c].parent = t
        /\ \E i \in 1..Len(executed) : executed[i].tx = c /\ executed[i].kind = "STMT"
        /\ \E i \in 1..Len(executed) : executed[i].tx = t /\ executed[i].kind = "STMT"

\* C17 as amended: the creation callback is invoked at most once; in the
\* browser variant exactly once and before openDatabase returns the handle;
\* in the Node variant only after openDatabase has returned, exactly once
\* when the database has opened and never when opening failed.
C17_CreationCallbackOnce ==
    /\ conn.creationCalls <= 1
    /\ conn.creationCalls = 1 => (conn.creationCallback /\ conn.state = "open")
    /\ (variant = "browser" /\ conn.returned /\ conn.creationCallback)
           => (conn.creationCalls = 1 /\ conn.beforeReturn)
    /\ (variant = "node" /\ conn.creationCalls = 1) => ~conn.beforeReturn
    /\ (variant = "node" /\ conn.state = "open" /\ conn.creationCallback)
           => conn.creationCalls = 1
    /\ (variant = "node" /\ conn.state = "failed") => conn.creationCalls = 0

\* The Node creation callback has run after a transaction was started on the
\* handle.
C17_Witness ==
    /\ variant = "node"
    /\ conn.creationCalls = 1
    /\ conn.txsBefore >= 1

\* C17 as stated: once openDatabase has returned the handle, a creation
\* callback given to it has been invoked exactly once, before the return,
\* hence before any transaction was started on the handle.
C17_OnceBeforeReturn ==
    (conn.returned /\ conn.creationCallback)
        => /\ conn.creationCalls = 1
           /\ conn.beforeReturn
           /\ conn.txsBefore = 0

====
